---- MODULE Spec2Model ----
(***************************************************************************)
(* Model of tap_medusa_v2/client.py: the MedusaStream REST client.         *)
(*                                                                         *)
(*   - the credential path: http_headers, is_token_valid, get_access_token *)
(*     working on the tap's shared configuration (_tap._config) and the    *)
(*     configuration file (_tap.config_file);                              *)
(*   - the pagination path: get_next_page_token, driven by the page loop.  *)
(*                                                                         *)
(* Python values are encoded as integers: None is -1, the empty string is  *)
(* 0, a non-empty string (a token, an API key, a user agent) is a positive *)
(* identifier.  expires_in, which the code converts with int(), keeps its  *)
(* Python type in a record.                                                *)
(***************************************************************************)
EXTENDS Integers, Sequences, FiniteSets, TLC

TOKEN_EXPIRY_BUFFER_SECONDS == 120
TOKEN_VALIDITY_MINUTES == 60

\* ---------------------------------------------------------------- bounds
StartTime == 1000      \* the clock (Unix seconds) when the run starts
MaxTicks == 2          \* how many times the clock advances in a behaviour
MaxCalls == 1          \* calls of http_headers made in a single-threaded run
MaxCallsFirst == 2     \* calls made in a run that starts with no credentials
MaxCallsConc == 2      \* calls made by the concurrent streams together
MaxPages == 5          \* page requests of one replication run
MaxPageSize == 4       \* records on one page of a replication run
MaxPrev == 57          \* largest previous token given to get_next_page_token
MaxRecords == 25       \* most records in a response given to get_next_page_token

\* ------------------------------------------------------- Python encodings
None == -1
EmptyStr == 0
OldToken == 1          \* a token found in the configuration at start
ApiKey == 7
UserAgent == 5

\* Python truthiness of an optional string or optional integer.
Truthy(x) == x # None /\ x # EmptyStr

Streams == {1, 2}

\* expires_in as stored: absent, an int, a numeric string, or another string.
ExpNone == [k |-> "none", v |-> 0]
ExpInt(n) == [k |-> "int", v |-> n]
ExpStr(n) == [k |-> "str", v |-> n]
ExpBad == [k |-> "bad", v |-> 0]

ValiditySeconds == TOKEN_VALIDITY_MINUTES * 60

\* The clock advances by a second, or by what is left of a fresh token's
\* validity before the expiry buffer starts.
TickSteps == {1, ValiditySeconds - TOKEN_EXPIRY_BUFFER_SECONDS}

Statuses == {200, 401, 503}

VARIABLES
    config,     \* _tap._config: the configuration shared by every stream
    file,       \* the content of _tap.config_file
    now,        \* the clock, in seconds
    ticks,      \* how many times the clock advanced
    logins,     \* login exchanges performed (POSTs to auth_url)
    winOk,      \* successful login exchanges since the cached expiry was last set
    lastIssued, \* the token of the most recent successful login exchange
    lastExp,    \* the expiry computed by the call that received lastIssued
    st,         \* per stream: position in the call and its local variables
    ncalls,     \* calls of http_headers the run may still make
    keepAll,    \* whether hist keeps every completed call or the latest only
    hist,       \* the completed calls, in order of completion
    cachedAt,   \* the clock reading the cached token's expiry is computed from
    data,       \* the dataset a replication run reads, and the records it got
    pg,         \* the replication run: its state, cursor and last page
    fn          \* a function applied to drawn inputs, with its result

vars == <<config, file, now, ticks, logins, winOk, lastIssued, lastExp, st, ncalls,
          keepAll, hist, cachedAt, data, pg, fn>>

NoResp == [status |-> 0, has_token |-> FALSE, token |-> None]

NoConfig == [access_token |-> None, expires_in |-> ExpNone,
             api_key |-> None, user_agent |-> None]

IdleLoc == [pc |-> "idle", op |-> "none", cur |-> None, vtok |-> None,
            vnow |-> 0, valid |-> "none", resp |-> NoResp, new_token |-> None,
            exp |-> 0, issued |-> 0, nlog |-> 0, pre |-> NoConfig,
            prefile |-> NoConfig]

\* ------------------------------------------------------------ is_token_valid
\* is_token_valid with the buffer compared by <= instead of <.
is_token_valid_le(access_token, t, expires_in) ==
    IF expires_in.k = "bad" THEN "ValueError"
    ELSE IF ~Truthy(access_token) THEN "False"
    ELSE IF expires_in.k = "none" \/ expires_in.v = 0 THEN "False"
    ELSE IF (expires_in.v - t) <= TOKEN_EXPIRY_BUFFER_SECONDS THEN "False"
    ELSE "True"

\* is_token_valid comparing the expiry itself, not what is left of it, with
\* the buffer.
is_token_valid_abs(access_token, t, expires_in) ==
    IF expires_in.k = "bad" THEN "ValueError"
    ELSE IF ~Truthy(access_token) THEN "False"
    ELSE IF expires_in.k = "none" \/ expires_in.v = 0 THEN "False"
    ELSE IF (expires_in.v - t) < TOKEN_EXPIRY_BUFFER_SECONDS * TOKEN_VALIDITY_MINUTES
         THEN "False"
    ELSE "True"

\* Lines 65-71, on the three values read at lines 62-64.  int() of a string
\* that is no number raises ValueError.
is_token_valid(access_token, t, expires_in) ==
    IF expires_in.k = "bad" THEN "ValueError"
    ELSE IF ~Truthy(access_token) THEN "False"
    ELSE IF expires_in.k = "none" \/ expires_in.v = 0 THEN "False"
    ELSE IF (expires_in.v - t) < TOKEN_EXPIRY_BUFFER_SECONDS THEN "False"
    ELSE "True"

\* The validity added as seconds instead of minutes.
expiry_timestamp_seconds(t) == t + TOKEN_VALIDITY_MINUTES

\* Line 95: now + timedelta(minutes=TOKEN_VALIDITY_MINUTES), as a timestamp.
expiry_timestamp(t) == t + TOKEN_VALIDITY_MINUTES * 60

\* Lines 142-153: the error type the message names.
response_error_message(status) ==
    [status |-> status,
     error_type |-> IF 400 <= status /\ status < 500 THEN "Client" ELSE "Server"]

\* Only a client error rejected.
validate_response_4xx(resp) == ~(400 <= resp.status /\ resp.status < 500)

\* Lines 88-91: validate_response raises on a 4xx or 5xx status.
validate_response(resp) == ~(400 <= resp.status /\ resp.status < 600)

\* Lines 49-51: the User-Agent header, when configured.
ua_headers(cfg) ==
    IF cfg.user_agent # None THEN {<<"User-Agent", cfg.user_agent>>} ELSE {}

\* The API key sent as a bearer token as well.
api_key_headers_both(cfg) ==
    ua_headers(cfg) \cup {<<"x-medusa-access-token", cfg.api_key>>,
                          <<"Authorization", cfg.api_key>>}

\* Lines 53-54.
api_key_headers(cfg) == ua_headers(cfg) \cup {<<"x-medusa-access-token", cfg.api_key>>}

\* Lines 56-57: f"Bearer {token}".
bearer_headers(cfg, token) == ua_headers(cfg) \cup {<<"Authorization", token>>}

\* new_token returned where current_token is meant.
return_new_token_unset(loc) == loc.new_token

\* Line 104: return current_token, the value read on line 75.
return_current_token(loc) == loc.cur

NoDetail == [status |-> 0, error_type |-> "none"]

\* The record of a completed call.
Done(s, outcome, detail, ret, headers) ==
    [s |-> s, op |-> st[s].op, valid |-> st[s].valid, status |-> st[s].resp.status,
     has_token |-> st[s].resp.has_token, resp_token |-> st[s].resp.token,
     outcome |-> outcome, detail |-> detail, ret |-> ret, headers |-> headers,
     nlog |-> st[s].nlog, vnow |-> st[s].vnow, issued |-> st[s].issued,
     exp |-> st[s].exp, pre |-> st[s].pre, prefile |-> st[s].prefile,
     post |-> config, postfile |-> file]

\* hist with the record r of the call that just completed.
Remember(r) == IF keepAll THEN Append(hist, r) ELSE <<r>>

\* The call of stream s ends: with a value returned to its caller, or raising.
Finish(s, outcome, detail, ret) ==
    /\ hist' = Remember(Done(s, outcome, detail, ret,
                 IF outcome = "ok" THEN bearer_headers(config, ret) ELSE {}))
    /\ st' = [st EXCEPT ![s] = IdleLoc]


\* -------------------------------------------------------- get_next_page_token
\* A response body as the records JSON path sees it: the key the path expects
\* is there and holds n records, or it is missing and the path matches nothing.
Response(shape, n) == [shape |-> shape, n |-> n]

\* Line 113: len(list(extract_jsonpath(self.records_jsonpath, res_json))).
records_len(response) == IF response.shape = "missing" THEN 0 ELSE response.n

\* The sum returned whatever the number of records.
get_next_page_token_always(response, previous_token) ==
    LET previous == IF Truthy(previous_token) THEN previous_token ELSE 0
    IN  previous + records_len(response)

\* The number of records of the page returned, the previous token dropped.
get_next_page_token_count(response, previous_token) ==
    IF records_len(response) # 0 THEN records_len(response) ELSE None

\* Lines 106-115.  A function that falls off its end returns None.
get_next_page_token(response, previous_token) ==
    LET previous == IF Truthy(previous_token) THEN previous_token ELSE 0
    IN  IF records_len(response) # 0
        THEN previous + records_len(response)
        ELSE None

NoPage == [state |-> "FETCHING", cursor |-> None, prev |-> None, count |-> 0,
           pages |-> 0, received |-> 0, shape |-> "none"]

\* No dataset: n records on the server, the records got so far, the offset
\* sent with the last request and the number of records got before it.
NoData == [n |-> 0, got |-> << >>, sent |-> None, before |-> 0]

\* cachedAt while the cached token is new and line 95 has not read the clock.
Pending == 0

NoFn == [name |-> "none", prev |-> None, response |-> Response("ok", 0),
         out |-> None, applied |-> FALSE]

\* ---------------------------------------------------------------- Init
InitExpiries ==
    {ExpNone, ExpInt(0), ExpInt(StartTime + TOKEN_EXPIRY_BUFFER_SECONDS - 1),
     ExpInt(StartTime + TOKEN_EXPIRY_BUFFER_SECONDS),
     ExpStr(StartTime + TOKEN_EXPIRY_BUFFER_SECONDS), ExpBad}

InitConfigs ==
    [access_token : {None, EmptyStr, OldToken}, expires_in : InitExpiries,
     api_key : {None, EmptyStr, ApiKey}, user_agent : {None, UserAgent}]

InitWith(configs, all, calls) ==
    /\ config \in configs
    /\ keepAll = all
    /\ ncalls = calls
    /\ file = config
    /\ now = StartTime
    /\ ticks = 0
    /\ logins = 0
    /\ winOk = 0
    /\ lastIssued = None
    /\ lastExp = None
    /\ st = [s \in Streams |-> IdleLoc]
    /\ hist = << >>
    /\ cachedAt = None
    /\ data = NoData
    /\ pg = NoPage
    /\ fn = NoFn

Init == InitWith({c \in InitConfigs : c.api_key # EmptyStr /\ c.user_agent = None},
                 FALSE, MaxCallsConc)

\* ---------------------------------------------------------------- actions
\* The clock is read on lines 63 and 95 only: time that passes anywhere else
\* is time that passes before the next of these reads.
Tick ==
    /\ ticks < MaxTicks
    /\ \E s \in Streams : st[s].pc \in {"l63", "l95"}
    /\ \E d \in TickSteps : now' = now + d
    /\ ticks' = ticks + 1
    /\ UNCHANGED <<config, file, logins, winOk, lastIssued, lastExp, st, ncalls,
                 keepAll, cachedAt, data, hist, pg, fn>>

\* Lines 46-58.  With an API key the headers are built at once; otherwise the
\* stream enters get_access_token.
http_headers(s) ==
    /\ st[s].pc = "idle"
    /\ ncalls > 0
    /\ ncalls' = ncalls - 1
    /\ IF Truthy(config.api_key)
       THEN /\ hist' = Remember(
                   [Done(s, "ok", NoDetail, None, api_key_headers(config))
                       EXCEPT !.op = "headers", !.valid = "n/a",
                              !.pre = config, !.prefile = file])
            /\ st' = st
       ELSE /\ st' = [st EXCEPT ![s] = [IdleLoc EXCEPT !.pc = "l75", !.op = "headers",
                                           !.pre = config, !.prefile = file]]
            /\ hist' = hist
    /\ UNCHANGED <<config, file, now, ticks, logins, winOk, lastIssued, lastExp,
                 keepAll, cachedAt, data, pg, fn>>

\* Line 75: current_token = self._tap._config.get("access_token").
read_current_token(s) ==
    /\ st[s].pc = "l75"
    /\ st' = [st EXCEPT ![s].cur = config.access_token, ![s].pc = "l62"]
    /\ UNCHANGED <<config, file, now, ticks, logins, winOk, lastIssued, lastExp, ncalls,
                 keepAll, cachedAt, data, hist, pg, fn>>

\* Line 62: is_token_valid reads the token.
valid_read_token(s) ==
    /\ st[s].pc = "l62"
    /\ st' = [st EXCEPT ![s].vtok = config.access_token, ![s].pc = "l63"]
    /\ UNCHANGED <<config, file, now, ticks, logins, winOk, lastIssued, lastExp, ncalls,
                 keepAll, cachedAt, data, hist, pg, fn>>

\* Line 63: is_token_valid reads the clock.
valid_read_now(s) ==
    /\ st[s].pc = "l63"
    /\ st' = [st EXCEPT ![s].vnow = now, ![s].pc = "l64"]
    /\ UNCHANGED <<config, file, now, ticks, logins, winOk, lastIssued, lastExp, ncalls,
                 keepAll, cachedAt, data, hist, pg, fn>>

\* Lines 64-71, then line 76: a valid token returns current_token (line 104),
\* an invalid one goes on to the login exchange, int() raising ends the call.
valid_check(s) ==
    /\ st[s].pc = "l64"
    /\ LET v == is_token_valid(st[s].vtok, st[s].vnow, config.expires_in)
           me == [st EXCEPT ![s].valid = v]
       IN  CASE v = "True" ->
                  /\ hist' = Remember(
                        [Done(s, "ok", NoDetail, return_current_token(st[s]),
                              bearer_headers(config, return_current_token(st[s])))
                           EXCEPT !.valid = v])
                  /\ st' = [st EXCEPT ![s] = IdleLoc]
             [] v = "False" ->
                  /\ st' = [me EXCEPT ![s].pc = "l83"]
                  /\ hist' = hist
             [] v = "ValueError" ->
                  /\ hist' = Remember(
                        [Done(s, "ValueError", NoDetail, None, {}) EXCEPT !.valid = v])
                  /\ st' = [st EXCEPT ![s] = IdleLoc]
    /\ UNCHANGED <<config, file, now, ticks, logins, winOk, lastIssued, lastExp, ncalls,
                 keepAll, cachedAt, data, pg, fn>>

\* Lines 83-87: the login exchange.  The server answers with a status and,
\* on 200, a body that holds a fresh token or none.
post_login(s) ==
    /\ st[s].pc = "l83"
    /\ \E status \in Statuses, has \in BOOLEAN :
          /\ (status # 200) => ~has
          /\ LET tok == IF has THEN OldToken + logins + 1 ELSE None
             IN  /\ st' = [st EXCEPT ![s].resp = [status |-> status, has_token |-> has,
                                                   token |-> tok],
                                      ![s].nlog = st[s].nlog + 1,
                                      ![s].pc = "l88"]
                 /\ winOk' = IF has THEN winOk + 1 ELSE winOk
                 /\ lastIssued' = IF has THEN tok ELSE lastIssued
                 /\ lastExp' = IF has THEN None ELSE lastExp
    /\ logins' = logins + 1
    /\ UNCHANGED <<config, file, now, ticks, ncalls, keepAll, cachedAt, data, hist, pg, fn>>

\* Lines 88-91: a status validate_response rejects ends the call with
\* Exception("Failed during token generation: <message>").
check_response(s) ==
    /\ st[s].pc = "l88"
    /\ IF validate_response(st[s].resp)
       THEN /\ st' = [st EXCEPT ![s].pc = "l93"]
            /\ hist' = hist
       ELSE Finish(s, "Exception", response_error_message(st[s].resp.status), None)
    /\ UNCHANGED <<config, file, now, ticks, logins, winOk, lastIssued, lastExp, ncalls,
                 keepAll, cachedAt, data, pg, fn>>

\* Lines 93-94: new_token = auth_response.json()["token"], stored in the
\* shared configuration.  A body without the key raises KeyError.
store_token(s) ==
    /\ st[s].pc = "l93"
    /\ IF st[s].resp.has_token
       THEN /\ config' = [config EXCEPT !.access_token = st[s].resp.token]
            /\ st' = [st EXCEPT ![s].new_token = st[s].resp.token, ![s].pc = "l95"]
            /\ hist' = hist
            /\ cachedAt' = Pending
       ELSE /\ Finish(s, "KeyError", NoDetail, None)
            /\ config' = config
            /\ cachedAt' = cachedAt
    /\ UNCHANGED <<file, now, ticks, logins, winOk, lastIssued, lastExp, ncalls,
                 keepAll, data, pg, fn>>

\* Line 95: expiry_timestamp computed from the clock.
compute_expiry(s) ==
    /\ st[s].pc = "l95"
    /\ st' = [st EXCEPT ![s].exp = expiry_timestamp(now), ![s].issued = now,
                         ![s].pc = "l96"]
    /\ lastExp' = IF st[s].new_token = lastIssued THEN expiry_timestamp(now) ELSE lastExp
    /\ cachedAt' = IF st[s].new_token = config.access_token THEN now ELSE cachedAt
    /\ UNCHANGED <<config, file, now, ticks, logins, winOk, lastIssued, ncalls, keepAll,
                   data, hist, pg, fn>>

\* Line 96: the expiry stored in the shared configuration.
store_expiry(s) ==
    /\ st[s].pc = "l96"
    /\ config' = [config EXCEPT !.expires_in = ExpInt(st[s].exp)]
    /\ winOk' = 0
    /\ st' = [st EXCEPT ![s].pc = "l99"]
    /\ UNCHANGED <<file, now, ticks, logins, lastIssued, lastExp, ncalls, keepAll, cachedAt, data, hist, pg, fn>>

\* Lines 99-100: the whole shared configuration dumped over the file.
write_config(s) ==
    /\ st[s].pc = "l99"
    /\ file' = config
    /\ st' = [st EXCEPT ![s].pc = "l102"]
    /\ UNCHANGED <<config, now, ticks, logins, winOk, lastIssued, lastExp, ncalls,
                 keepAll, cachedAt, data, hist, pg, fn>>

\* Line 102: return new_token.
return_new_token(s) ==
    /\ st[s].pc = "l102"
    /\ Finish(s, "ok", NoDetail, st[s].new_token)
    /\ UNCHANGED <<config, file, now, ticks, logins, winOk, lastIssued, lastExp, ncalls,
                 keepAll, cachedAt, data, pg, fn>>

Step(s) ==
    \/ read_current_token(s)
    \/ valid_read_token(s)
    \/ valid_read_now(s)
    \/ valid_check(s)
    \/ post_login(s)
    \/ check_response(s)
    \/ store_token(s)
    \/ compute_expiry(s)
    \/ store_expiry(s)
    \/ write_config(s)
    \/ return_new_token(s)

\* Stream instances running concurrently: their steps interleave.
Next ==
    \/ Tick
    \/ \E s \in Streams : http_headers(s)
    \/ \E s \in Streams : Step(s)

Spec == Init /\ [][Next]_vars

\* Stream instances running one call at a time, as a single-threaded run does.
AllIdle == \A t \in Streams : st[t].pc = "idle"

NextSeq ==
    \/ Tick
    \/ \E s \in Streams : AllIdle /\ http_headers(s)
    \/ \E s \in Streams : Step(s)

InitSeq == InitWith(InitConfigs, FALSE, MaxCalls)

SpecSeq == InitSeq /\ [][NextSeq]_vars

\* A single-threaded run that starts with no API key and an empty Credential
\* State, every completed call remembered.
InitFirst ==
    InitWith({c \in InitConfigs : /\ ~Truthy(c.api_key)
                                  /\ c.access_token = None
                                  /\ c.expires_in = ExpNone}, TRUE, MaxCallsFirst)

SpecFirst == InitFirst /\ [][NextSeq]_vars

\* ------------------------------------------------------------ replication run
\* The page loop of one replication run: FETCHING with the cursor absent at
\* the start; each page is requested with the current cursor and the next
\* cursor is computed from its response; DONE when the next cursor is absent.
Responses(maxn) ==
    {Response("ok", n) : n \in 0..maxn} \cup {Response("missing", 0)}

fetch_page ==
    /\ pg.state = "FETCHING"
    /\ pg.pages < MaxPages
    /\ \E response \in Responses(MaxPageSize) :
          LET next == get_next_page_token(response, pg.cursor)
          IN  pg' = [state |-> IF next = None THEN "DONE" ELSE "FETCHING",
                     cursor |-> next, prev |-> pg.cursor,
                     count |-> records_len(response),
                     pages |-> pg.pages + 1,
                     received |-> pg.received + records_len(response),
                     shape |-> response.shape]
    /\ UNCHANGED <<config, file, now, ticks, logins, winOk, lastIssued, lastExp, st,
                   ncalls, keepAll, cachedAt, data, hist, fn>>

InitPage ==
    /\ InitWith({NoConfig}, FALSE, 0)

NextPage == fetch_page

SpecPage == InitPage /\ [][NextPage]_vars

\* --------------------------------------------------- functions on drawn inputs
InitFn ==
    /\ config = NoConfig /\ file = NoConfig /\ now = StartTime /\ ticks = 0
    /\ logins = 0 /\ winOk = 0 /\ lastIssued = None /\ lastExp = None
    /\ st = [s \in Streams |-> IdleLoc] /\ ncalls = 0 /\ keepAll = FALSE
    /\ hist = << >> /\ cachedAt = None /\ data = NoData /\ pg = NoPage
    /\ \E prev \in {None} \cup 0..MaxPrev, response \in Responses(MaxRecords) :
          fn = [NoFn EXCEPT !.name = "get_next_page_token", !.prev = prev,
                            !.response = response]

apply_get_next_page_token ==
    /\ fn.name = "get_next_page_token"
    /\ ~fn.applied
    /\ fn' = [fn EXCEPT !.out = get_next_page_token(fn.response, fn.prev),
                        !.applied = TRUE]
    /\ UNCHANGED <<config, file, now, ticks, logins, winOk, lastIssued, lastExp, st,
                   ncalls, keepAll, cachedAt, data, hist, pg>>

NextFn == apply_get_next_page_token

SpecFn == InitFn /\ [][NextFn]_vars

\* ------------------------------------------------------------------ url_base
\* A URL is a sequence of pieces: "/" and "admin" are the texts the code
\* looks for, "h" is any other text (scheme, host, path segment).
MaxUrlLen == 5

UrlPieces == {"/", "admin", "h"}

RECURSIVE Urls(_)
Urls(n) ==
    IF n = 0 THEN {<< >>}
    ELSE Urls(n - 1) \cup
         {Append(u, p) : u \in {v \in Urls(n - 1) : Len(v) = n - 1}, p \in UrlPieces}

\* The text "/admin".
AdminSuffix == <<"/", "admin">>

\* str.rstrip("/"): every trailing "/" is removed.
RECURSIVE rstrip(_)
rstrip(u) ==
    IF u # << >> /\ u[Len(u)] = "/" THEN rstrip(SubSeq(u, 1, Len(u) - 1)) ELSE u

\* str.endswith(suffix).
endswith(u, suffix) ==
    /\ Len(u) >= Len(suffix)
    /\ SubSeq(u, Len(u) - Len(suffix) + 1, Len(u)) = suffix

\* Lines 34-36: config.get("base_url", "").rstrip("/").
base_url(cfg) == rstrip(IF cfg.present THEN cfg.base_url ELSE << >>)

\* "/admin" appended whatever the end of base_url.
url_base_always(cfg) == base_url(cfg) \o AdminSuffix

\* Lines 38-40.
url_base(cfg) ==
    IF ~endswith(base_url(cfg), AdminSuffix)
    THEN base_url(cfg) \o AdminSuffix
    ELSE base_url(cfg)

\* Every variable the functions below do not touch.
InitRest ==
    /\ config = NoConfig /\ file = NoConfig /\ now = StartTime /\ ticks = 0
    /\ logins = 0 /\ winOk = 0 /\ lastIssued = None /\ lastExp = None
    /\ st = [s \in Streams |-> IdleLoc] /\ ncalls = 0 /\ keepAll = FALSE
    /\ hist = << >> /\ cachedAt = None /\ data = NoData /\ pg = NoPage

\* The configured base_url: any URL, or the key left out.
InitUrl ==
    /\ InitRest
    /\ \E cfg \in {[present |-> TRUE, base_url |-> u] : u \in Urls(MaxUrlLen)}
                  \cup {[present |-> FALSE, base_url |-> << >>]} :
          fn = [name |-> "url_base", cfg |-> cfg, once |-> << >>, twice |-> << >>,
                applied |-> 0]

\* url_base is read, then read again with its result as the configured URL.
apply_url_base ==
    /\ fn.name = "url_base"
    /\ fn.applied < 2
    /\ fn' = IF fn.applied = 0
             THEN [fn EXCEPT !.once = url_base(fn.cfg), !.applied = 1]
             ELSE [fn EXCEPT !.twice = url_base([present |-> TRUE, base_url |-> fn.once]),
                             !.applied = 2]
    /\ UNCHANGED <<config, file, now, ticks, logins, winOk, lastIssued, lastExp, st,
                   ncalls, keepAll, cachedAt, data, hist, pg>>

NextUrl == apply_url_base

SpecUrl == InitUrl /\ [][NextUrl]_vars

\* ------------------------------------------------------------ get_url_params
\* A datetime is its wall-clock reading t, in seconds since 00:00:00 of
\* 1 January of EpochYear on its own clock, and its UTC offset off in hours.
\* NoTime is None, EmptyTime the empty string a configuration may hold.
EpochYear == 2024

NoTime == [k |-> "none", t |-> 0, off |-> 0]
EmptyTime == [k |-> "empty", t |-> 0, off |-> 0]
DateTime(t, off) == [k |-> "dt", t |-> t, off |-> off]
\* The ISO text of a datetime, as start_date holds it.
IsoText(t, off) == [k |-> "str", t |-> t, off |-> off]

\* A datetime object is always true; None and "" are not.
TruthyTime(x) == x.k \in {"dt", "str"}

\* Wall-clock readings before a minute, an hour, a day, a leap day and a
\* year roll over, and offsets: UTC and five hours behind it.
WallClocks == {0, 59, 3599, 86399, 60 * 86400 - 1, 366 * 86400 - 1}
Offsets == {0, -5}
DateTimes == {DateTime(t, off) : t \in WallClocks, off \in Offsets}

\* pendulum.parse: the wall-clock reading and the offset written in the text.
parse(text) == DateTime(text.t, text.off)

\* datetime + timedelta(seconds=n): same offset, the reading n later.
plus_seconds(dt, n) == DateTime(dt.t + n, dt.off)

IsLeap(y) == (y % 4 = 0 /\ y % 100 # 0) \/ y % 400 = 0

DaysInMonth(y, m) ==
    IF m = 2 THEN (IF IsLeap(y) THEN 29 ELSE 28)
    ELSE IF m \in {4, 6, 9, 11} THEN 30 ELSE 31

\* The date d days after the first of month m of year y.
RECURSIVE DateOf(_, _, _)
DateOf(y, m, d) ==
    IF d < DaysInMonth(y, m) THEN [Y |-> y, M |-> m, D |-> d + 1]
    ELSE IF m = 12 THEN DateOf(y + 1, 1, d - DaysInMonth(y, m))
    ELSE DateOf(y, m + 1, d - DaysInMonth(y, m))

\* The text "%Y-%m-%dT%H:%M:%S" of the reading t, followed by suffix.
TimeText(t, suffix) ==
    LET date == DateOf(EpochYear, 1, t \div 86400)
        sod  == t % 86400
    IN  [Y |-> date.Y, M |-> date.M, D |-> date.D,
         h |-> sod \div 3600, m |-> (sod % 3600) \div 60, s |-> sod % 60,
         suffix |-> suffix]

\* Line 138: strftime("%Y-%m-%dT%H:%M:%SZ") prints the fields of the
\* datetime's own clock; the Z is a literal of the format.
strftime(dt) == TimeText(dt.t, "Z")

\* The dictionary value that is the integer n.
IntVal(n) == [int |-> n]

\* replication_key of a stream: None, or a field name.
NoName == "<None>"
ReplicationKeys == {NoName, "", "updated_at", "created_at"}
TruthyName(name) == name \notin {NoName, ""}

\* f"{self.replication_key}[gt]".
GtKey(name) ==
    CASE name = "updated_at" -> "updated_at[gt]"
      [] name = "created_at" -> "created_at[gt]"
      [] name = "" -> "[gt]"
      [] OTHER -> "None[gt]"

EmptyDict == [k \in {} |-> IntVal(0)]

\* additional_params of a stream: none, a page size, a page size and an offset.
AdditionalParams ==
    {EmptyDict, "limit" :> IntVal(100), ("limit" :> IntVal(100)) @@ ("offset" :> IntVal(7))}

\* The configured start date where a bookmark is.
get_starting_time_config_first(self, context) ==
    LET start_date == IF TruthyTime(self.start_date) THEN parse(self.start_date)
                      ELSE self.start_date
    IN  IF TruthyTime(start_date) THEN start_date ELSE context.bookmark

\* Lines 117-123; context.bookmark is what get_starting_timestamp(context)
\* returns, self.start_date is config.get("start_date").
get_starting_time(self, context) ==
    LET start_date == IF TruthyTime(self.start_date) THEN parse(self.start_date)
                      ELSE self.start_date
        rep_key == context.bookmark
    IN  IF TruthyTime(rep_key) THEN rep_key ELSE start_date

\* The offset set for every token that is not None.
get_url_params_offset_zero(self, context, next_page_token) ==
    LET params1 == self.additional_params
        params2 == IF next_page_token # None
                   THEN ("offset" :> IntVal(next_page_token)) @@ params1
                   ELSE params1
        start_date == get_starting_time(self, context)
    IN  IF TruthyTime(start_date) /\ TruthyName(self.replication_key)
        THEN (GtKey(self.replication_key) :> strftime(plus_seconds(start_date, 1)))
             @@ params2
        ELSE params2

\* The offset left out whatever the token.
get_url_params_no_offset(self, context, next_page_token) ==
    LET params2 == self.additional_params
        start_date == get_starting_time(self, context)
    IN  IF TruthyTime(start_date) /\ TruthyName(self.replication_key)
        THEN (GtKey(self.replication_key) :> strftime(plus_seconds(start_date, 1)))
             @@ params2
        ELSE params2

\* Lines 125-140.
get_url_params(self, context, next_page_token) ==
    LET params1 == self.additional_params
        params2 == IF Truthy(next_page_token)
                   THEN ("offset" :> IntVal(next_page_token)) @@ params1
                   ELSE params1
        start_date == get_starting_time(self, context)
    IN  IF TruthyTime(start_date) /\ TruthyName(self.replication_key)
        THEN (GtKey(self.replication_key) :> strftime(plus_seconds(start_date, 1)))
             @@ params2
        ELSE params2

\* A stream as get_url_params reads it, and the context of a run.
StreamOf(additional_params, replication_key, start_date) ==
    [additional_params |-> additional_params, replication_key |-> replication_key,
     start_date |-> start_date]

ContextOf(bookmark) == [bookmark |-> bookmark]

\* Page tokens: absent, zero, and sums of page sizes.
PageTokens == {None, 0, 1, MaxRecords}

InitParams ==
    /\ InitRest
    /\ \E additional_params \in AdditionalParams, next_page_token \in PageTokens,
          replication_key \in ReplicationKeys,
          start_date_cfg \in {NoTime, EmptyTime}
                             \cup {IsoText(d.t, d.off) : d \in DateTimes},
          bookmark \in {NoTime} \cup DateTimes :
          fn = [name |-> "get_url_params", additional_params |-> additional_params,
                next_page_token |-> next_page_token,
                replication_key |-> replication_key,
                start_date |-> start_date_cfg, bookmark |-> bookmark,
                start |-> NoTime, params |-> EmptyDict, applied |-> FALSE]

apply_get_url_params ==
    /\ fn.name = "get_url_params"
    /\ ~fn.applied
    /\ fn' = [fn EXCEPT
                !.start = get_starting_time(
                              StreamOf(fn.additional_params, fn.replication_key,
                                       fn.start_date), ContextOf(fn.bookmark)),
                !.params = get_url_params(
                              StreamOf(fn.additional_params, fn.replication_key,
                                       fn.start_date), ContextOf(fn.bookmark),
                              fn.next_page_token),
                !.applied = TRUE]
    /\ UNCHANGED <<config, file, now, ticks, logins, winOk, lastIssued, lastExp, st,
                   ncalls, keepAll, cachedAt, data, hist, pg>>

NextParams == apply_get_url_params

SpecParams == InitParams /\ [][NextParams]_vars

\* ------------------------------------------------- a run over a static dataset
\* The server holds records 1..n and answers a request with the records that
\* follow the offset asked for: at least one and at most MaxPageSize of them
\* while the offset is below n, none otherwise. The request's offset is the
\* one get_url_params builds from the cursor, the next cursor the one
\* get_next_page_token derives from the response.
MaxN == 9

Min(a, b) == IF a < b THEN a ELSE b

\* A stream with no static parameter and no replication key.
PlainStream == StreamOf(EmptyDict, NoName, NoTime)

InitData ==
    /\ config = NoConfig /\ file = NoConfig /\ now = StartTime /\ ticks = 0
    /\ logins = 0 /\ winOk = 0 /\ lastIssued = None /\ lastExp = None
    /\ st = [s \in Streams |-> IdleLoc] /\ ncalls = 0 /\ keepAll = FALSE
    /\ hist = << >> /\ cachedAt = None /\ pg = NoPage /\ fn = NoFn
    /\ \E n \in 0..MaxN : data = [NoData EXCEPT !.n = n]

fetch_data_page ==
    /\ pg.state = "FETCHING"
    /\ LET params == get_url_params(PlainStream, ContextOf(NoTime), pg.cursor)
           offset == IF "offset" \in DOMAIN params THEN params["offset"].int ELSE 0
           sizes  == IF offset < data.n
                     THEN 1..Min(MaxPageSize, data.n - offset) ELSE {0}
       IN  \E k \in sizes :
              LET response == Response("ok", k)
                  next == get_next_page_token(response, pg.cursor)
              IN  /\ pg' = [state |-> IF next = None THEN "DONE" ELSE "FETCHING",
                            cursor |-> next, prev |-> pg.cursor,
                            count |-> records_len(response),
                            pages |-> pg.pages + 1,
                            received |-> pg.received + records_len(response),
                            shape |-> response.shape]
                  /\ data' = [data EXCEPT
                                !.got = data.got \o [i \in 1..k |-> offset + i],
                                !.sent = IF "offset" \in DOMAIN params
                                         THEN offset ELSE None,
                                !.before = Len(data.got)]
    /\ UNCHANGED <<config, file, now, ticks, logins, winOk, lastIssued, lastExp, st,
                   ncalls, keepAll, cachedAt, hist, fn>>

NextData == fetch_data_page

\* The orchestrator's loop is sequential code: while the run is FETCHING the
\* next request is made.
SpecData == InitData /\ [][NextData]_vars /\ WF_vars(fetch_data_page)

\* ==================================================================== claims
Calls == {hist[i] : i \in DOMAIN hist}

AuthNames == {"x-medusa-access-token", "Authorization"}

\* C1: streams sharing one Credential State perform at most one successful
\* login exchange per expiry window: between two moments at which the cached
\* expiry is set, no second login exchange succeeds (the second caller uses
\* the refreshed token instead of logging in again).
C1_OneLoginPerWindow == winOk <= 1

\* C2: once every concurrent call has completed, the cached and the persisted
\* configuration both hold the token of the last successful login exchange
\* with the expiry computed for that token (no stale overwrite).
C2_NoLostUpdate ==
    (AllIdle /\ lastIssued # None) =>
        /\ config.access_token = lastIssued
        /\ config.expires_in = ExpInt(lastExp)
        /\ file.access_token = lastIssued
        /\ file.expires_in = ExpInt(lastExp)

\* C3: for a recorded expiry that is a timestamp (or absent), is_token_valid
\* is False when the token is absent, or the expiry is absent, or
\* expiry - now < 120, and True in every other state; its steps change
\* neither the cached nor the persisted configuration.
C3_Result ==
    \A c \in Calls :
        (c.valid # "n/a" /\ c.pre.expires_in.k # "bad") =>
            c.valid = IF \/ c.pre.access_token \in {None, EmptyStr}
                         \/ c.pre.expires_in.k = "none"
                         \/ c.pre.expires_in.v - c.vnow < 120
                      THEN "False" ELSE "True"

C3_Frame ==
    \A s \in Streams :
        (st[s].pc \in {"l62", "l63", "l64"} /\ st'[s].pc # st[s].pc) =>
            (config' = config /\ file' = file /\ logins' = logins)

\* C3: is_token_valid gives the result the three conditions define and
\* changes no state.
C3_IsTokenValid == [](C3_Result) /\ [][C3_Frame]_vars

C3_Witness ==
    \E c \in Calls : /\ c.valid = "True"
                     /\ c.pre.expires_in.v - c.vnow = 120

\* C4: a call of get_access_token whose validity check is True returns the
\* cached token, performs no login exchange, and leaves the cached token,
\* the cached expiry and the persisted configuration as they were.
C4_ValidReturnsCached ==
    \A c \in Calls :
        (c.valid = "True") =>
            /\ c.outcome = "ok"
            /\ c.ret = c.pre.access_token
            /\ c.nlog = 0
            /\ c.post = c.pre
            /\ c.postfile = c.prefile

C4_Witness ==
    \E c \in Calls : /\ c.valid = "True"
                     /\ c.ret = OldToken
                     /\ c.pre.expires_in.k = "str"
                     /\ <<"Authorization", OldToken>> \in c.headers

\* C5: a call whose validity check is False and whose login exchange succeeds
\* (status 200, token in the body) returns the token of the response after one
\* exchange; on return the cached token is that token, the cached expiry is
\* the clock read on refresh plus 3600 seconds, and the file holds the whole
\* updated configuration, static keys included.
C5_RefreshInstalls ==
    \A c \in Calls :
        (c.valid = "False" /\ c.status = 200 /\ c.has_token) =>
            /\ c.outcome = "ok"
            /\ c.nlog = 1
            /\ c.ret = c.resp_token
            /\ c.post.access_token = c.resp_token
            /\ c.post.expires_in = ExpInt(c.issued + 3600)
            /\ c.post.api_key = c.pre.api_key
            /\ c.post.user_agent = c.pre.user_agent
            /\ c.postfile = c.post

C5_Witness ==
    \E c \in Calls : /\ c.valid = "False" /\ c.outcome = "ok"
                     /\ c.pre.access_token = OldToken
                     /\ c.prefile # c.postfile
                     /\ c.post.user_agent = UserAgent
                     /\ c.issued > c.vnow

\* C6: with no API key and an empty Credential State at the start, the first
\* http_headers call performs exactly one login exchange and, when it
\* succeeds, caches the token it sends; a second call whose validity check
\* falls within the validity window of that token (at least 120 seconds
\* before the expiry) performs no login exchange and sends the same token.
C6_InWindow ==
    /\ Len(hist) >= 2
    /\ hist[1].outcome = "ok"
    /\ (hist[1].issued + 3600) - hist[2].vnow >= 120

\* C6: one login exchange on the first call, none on a second call within
\* the validity window.
C6_FirstThenCached ==
    /\ (Len(hist) >= 1) => hist[1].nlog = 1
    /\ (Len(hist) >= 1 /\ hist[1].outcome = "ok") =>
            /\ hist[1].post.access_token = hist[1].ret
            /\ <<"Authorization", hist[1].ret>> \in hist[1].headers
            /\ Truthy(hist[1].ret)
    /\ C6_InWindow =>
            /\ hist[2].nlog = 0
            /\ hist[2].outcome = "ok"
            /\ hist[2].headers = hist[1].headers

C6_Witness == C6_InWindow /\ hist[2].vnow > hist[1].issued /\ logins = 1

\* C7: http_headers emits exactly one authentication header.  With an API key
\* configured it is x-medusa-access-token with the key, with no Authorization
\* header, no validity check, no login exchange and the Credential State and
\* the file untouched, whatever the token state; with none configured it is
\* Authorization with the token get_access_token returned.
C7_OneAuthHeader ==
    \A c \in Calls :
        /\ Truthy(c.pre.api_key) =>
              /\ c.outcome = "ok"
              /\ {h \in c.headers : h[1] \in AuthNames}
                    = {<<"x-medusa-access-token", c.pre.api_key>>}
              /\ c.valid = "n/a"
              /\ c.nlog = 0
              /\ c.post = c.pre
              /\ c.postfile = c.prefile
        /\ (~Truthy(c.pre.api_key) /\ c.outcome = "ok") =>
              /\ {h \in c.headers : h[1] \in AuthNames} = {<<"Authorization", c.ret>>}
              /\ c.valid \in {"True", "False"}
        /\ (c.outcome # "ok") => c.headers = {}

C7_Witness ==
    \E c \in Calls : /\ c.pre.api_key = ApiKey
                     /\ c.pre.access_token = None
                     /\ <<"x-medusa-access-token", ApiKey>> \in c.headers
                     /\ <<"User-Agent", UserAgent>> \in c.headers

C9_Count == IF fn.response.shape = "ok" THEN fn.response.n ELSE 0

\* C9: None for a response without records, previous token plus count
\* otherwise.
C9_NextPageToken ==
    (fn.name = "get_next_page_token" /\ fn.applied) =>
        /\ (C9_Count = 0) => fn.out = None
        /\ (C9_Count > 0) =>
              fn.out = (IF fn.prev = None THEN 0 ELSE fn.prev) + C9_Count
        /\ (fn.prev = 57 /\ fn.response = Response("ok", 0)) => fn.out = None
        /\ (fn.prev = 50 /\ fn.response = Response("ok", 25)) => fn.out = 75

C9_Witness ==
    /\ fn.applied
    /\ fn.prev = 50
    /\ fn.response = Response("ok", 25)
    /\ fn.out = 75

\* C10: in one replication run every step is a page request made while
\* FETCHING; the cursor advances by exactly the number of records of the
\* page (so it never decreases), and the run becomes DONE, with the next
\* cursor absent, exactly when the page holds no record; once DONE nothing
\* more is requested.
C10_Cursor(c) == IF c = None THEN 0 ELSE c

C10_Step ==
    (pg' # pg) =>
        /\ pg.state = "FETCHING"
        /\ pg'.pages = pg.pages + 1
        /\ (pg'.state = "DONE") <=> (pg'.count = 0)
        /\ (pg'.state = "DONE") <=> (pg'.cursor = None)
        /\ (pg'.count > 0) =>
              /\ pg'.cursor = C10_Cursor(pg.cursor) + pg'.count
              /\ pg'.cursor >= C10_Cursor(pg.cursor)
        /\ pg'.state \in {"FETCHING", "DONE"}

\* C10: every step of a replication run advances the cursor by the page's
\* record count or ends the run on an empty page; a run that is DONE stays.
C10_PaginationRun == [][C10_Step]_vars

C10_Witness ==
    /\ pg.state = "DONE"
    /\ pg.pages >= 3
    /\ pg.received >= 2 * MaxPageSize
    /\ pg.prev = pg.received

\* C14: a page whose JSON lacks the key the records path expects fails the
\* run; it is never taken for an empty page that ends the run as DONE.
C14_MalformedFails ==
    (pg.shape = "missing") => (pg.state = "FAILED")

\* C15: a login answered 2xx with no token in its body fails the call with
\* the error a rejected login gives (the wrapped token-generation failure),
\* and the cached token, cached expiry and written configuration stay as
\* they were.
C15_MissingTokenRaises ==
    \A c \in Calls :
        (c.op = "headers" /\ c.valid = "False" /\ c.nlog = 1
            /\ c.status \in 200..299 /\ ~c.has_token) =>
            /\ c.outcome = "Exception"
            /\ c.post = c.pre
            /\ c.postfile = c.prefile

\* C18: with a recorded expires_in that is not an integer, is_token_valid
\* answers false and the call goes on to a login; no error comes out of the
\* parse and the cached token is not returned.
C18_UnparsableIsInvalid ==
    \A c \in Calls :
        (c.valid # "n/a" /\ c.pre.expires_in.k = "bad") =>
            /\ c.valid = "False"
            /\ c.nlog = 1
            /\ c.outcome # "ValueError"

\* C19: under every interleaving, a call that returns with its validity
\* check passed returns a token that is present and is the one cached when
\* the check passed; a call that returns after its own login returns the
\* token of that login.
C19_ReturnsCachedToken ==
    \A c \in Calls :
        (c.outcome = "ok" /\ c.valid # "n/a") =>
            /\ Truthy(c.ret)
            /\ (c.valid = "True") => (c.ret = c.post.access_token)
            /\ (c.valid = "False") => (c.ret = c.resp_token)

\* C17: in every reachable state the cached expiry, when present, is the
\* issue time of the cached token plus the 60-minute window: a token from a
\* login is never cached next to an expiry computed for another token, and
\* never before its own expiry is.
C17_ExpiryIsIssuePlusWindow ==
    (config.expires_in.k # "none" /\ cachedAt # None) =>
        /\ cachedAt # Pending
        /\ config.expires_in = ExpInt(cachedAt + ValiditySeconds)

\* The number of times "/admin" is repeated at the end of u.
RECURSIVE C13_Suffixes(_)
C13_Suffixes(u) ==
    IF endswith(u, AdminSuffix)
    THEN 1 + C13_Suffixes(SubSeq(u, 1, Len(u) - Len(AdminSuffix)))
    ELSE 0

C13_Normalized ==
    /\ fn.twice = fn.once
    /\ endswith(fn.once, AdminSuffix)
    /\ fn.once[Len(fn.once)] # "/"

\* C13 as stated: normalizing twice gives what normalizing once gives, and
\* the result ends with exactly one "/admin" and no trailing slash, for
\* every input.
C13_ExactlyOneSuffix ==
    (fn.name = "url_base" /\ fn.applied = 2) =>
        /\ C13_Normalized
        /\ C13_Suffixes(fn.once) = 1

\* C13 amended: normalizing twice gives what normalizing once gives, the
\* result ends with "/admin" and has no trailing slash, and "/admin" is
\* added only to an input that, its trailing slashes removed, does not end
\* with it: the result has one "/admin" suffix unless the input already
\* repeated it, and then as many as the input.
C13_UrlBaseIdempotent ==
    (fn.name = "url_base" /\ fn.applied = 2) =>
        /\ C13_Normalized
        /\ LET had == C13_Suffixes(rstrip(fn.cfg.base_url))
           IN  C13_Suffixes(fn.once) = IF had = 0 THEN 1 ELSE had

C13_Witness ==
    /\ fn.name = "url_base" /\ fn.applied = 2
    /\ fn.cfg.base_url = <<"h", "/", "admin", "/", "/">>
    /\ fn.once = <<"h", "/", "admin">>
    /\ fn.twice = fn.once

\* The starting time the inputs resolve to: the bookmark, else the
\* configured start date.
C11_Start ==
    IF fn.bookmark.k = "dt" THEN fn.bookmark
    ELSE IF fn.start_date.k = "str" THEN DateTime(fn.start_date.t, fn.start_date.off)
    ELSE NoTime

\* The instant a datetime denotes, in seconds of UTC since the epoch year began.
C11_Instant(dt) == dt.t - dt.off * 3600

C11_GtKeys == {GtKey(name) : name \in ReplicationKeys}

\* C11: a [gt] key is set exactly when a replication key is configured and
\* a starting time resolves; it is named after the replication key and its
\* value is the UTC text (YYYY-MM-DDTHH:MM:SSZ) of the starting time plus
\* one second; 2024-01-01T00:00:00Z gives 2024-01-01T00:00:01Z.
C11_GtParam ==
    (fn.name = "get_url_params" /\ fn.applied) =>
        LET resolves == TruthyName(fn.replication_key) /\ C11_Start.k = "dt"
            key == GtKey(fn.replication_key)
        IN  /\ resolves => key \in DOMAIN fn.params
            /\ ~resolves => (DOMAIN fn.params) \cap C11_GtKeys = {}
            /\ resolves =>
                  fn.params[key] = TimeText(C11_Instant(C11_Start) + 1, "Z")
            /\ (resolves /\ C11_Start = DateTime(0, 0)) =>
                  fn.params[key] = [Y |-> 2024, M |-> 1, D |-> 1,
                                    h |-> 0, m |-> 0, s |-> 1, suffix |-> "Z"]

\* C12: the starting time is the bookmark whenever there is one, the
\* configured start date only when there is none, and absent only when both
\* are.
C12_StartingTime ==
    (fn.name = "get_url_params" /\ fn.applied) =>
        /\ (fn.bookmark.k = "dt") => fn.start = fn.bookmark
        /\ (fn.bookmark.k # "dt" /\ fn.start_date.k = "str") =>
              fn.start = DateTime(fn.start_date.t, fn.start_date.off)
        /\ (fn.start.k # "dt") <=> (fn.bookmark.k # "dt" /\ fn.start_date.k # "str")

C12_Witness ==
    /\ fn.name = "get_url_params" /\ fn.applied
    /\ fn.bookmark = DateTime(86399, 0)
    /\ fn.start_date = IsoText(59, -5)
    /\ fn.start = fn.bookmark

\* C16: offset is set to the page token exactly when the token is present
\* and not zero; otherwise offset is there only if the static parameters
\* have it, with their value; every static parameter is in the result, with
\* its static value unless it is the offset the page token replaces.
C16_OffsetParam ==
    (fn.name = "get_url_params" /\ fn.applied) =>
        LET paged == fn.next_page_token # None /\ fn.next_page_token # 0
            static == fn.additional_params
        IN  /\ paged => ("offset" \in DOMAIN fn.params
                         /\ fn.params["offset"] = IntVal(fn.next_page_token))
            /\ ~paged => ("offset" \in DOMAIN fn.params <=> "offset" \in DOMAIN static)
            /\ \A k \in DOMAIN static :
                  /\ k \in DOMAIN fn.params
                  /\ (k # "offset" \/ ~paged) => fn.params[k] = static[k]
            /\ DOMAIN fn.params \subseteq (DOMAIN static) \cup {"offset"} \cup C11_GtKeys

C16_Witness ==
    /\ fn.name = "get_url_params" /\ fn.applied
    /\ fn.next_page_token = MaxRecords
    /\ fn.additional_params = ("limit" :> IntVal(100))
    /\ fn.params["offset"] = IntVal(MaxRecords)
    /\ fn.params["limit"] = IntVal(100)

C20_Safe ==
    /\ (IF data.sent = None THEN 0 ELSE data.sent) = data.before
    /\ data.before <= Len(data.got)
    /\ \A i \in 1..Len(data.got) : data.got[i] = i
    /\ Len(data.got) <= data.n
    /\ pg.pages <= data.n + 1
    /\ (pg.state = "DONE") => Len(data.got) = data.n

\* C20: over a static dataset of n records the run ends DONE after at most
\* n + 1 pages, every request carries as offset the number of records the
\* earlier pages held, and the records got are 1..n in order, each once.
C20_StaticDataset == [](C20_Safe) /\ <>(pg.state = "DONE")

C20_Witness ==
    /\ pg.state = "DONE"
    /\ data.n = MaxN
    /\ pg.pages >= 4
    /\ data.got = [i \in 1..MaxN |-> i]
    /\ data.sent = MaxN

====
